---- MODULE Spec2Model ----
(***************************************************************************)
(* pyalgotrade.technical: the cache abstraction (FIFOCache, NoCache), the  *)
(* sliding-window accumulator (EventWindow and the SMA / EMA / WMA         *)
(* windows of pyalgotrade.technical.ma), the push-model adapter            *)
(* (EventBasedFilter) and the position-indexed lazy base                   *)
(* (TechnicalIndicatorBase / DataSeriesFilter).                            *)
(***************************************************************************)
EXTENDS Integers, Sequences, FiniteSets, TLC

(***************************************************************************)
(* Bounds of the model.                                                    *)
(***************************************************************************)
\* positions 0 .. MaxPos are offered to the cache when it is driven directly
MaxPos == 2
\* cache capacities 1 .. MaxCache; an indicator is given a cacheSize in
\* -1 .. MaxCache, or none
MaxCache == 2
\* number of putValue calls made on a directly driven cache
MaxPuts == 6
\* the source series of a lazy indicator holds at most MaxLen samples
MaxLen == 3
\* the source series of a push filter and a lazy indicator side by side
\* holds at most MaxBoth samples
MaxBoth == 4
\* the source series of a push filter holds at most MaxPush samples
MaxPush == 5
\* the source series holds at most MaxInit samples when a filter subscribes
MaxInit == 1
\* where only the SMA window runs, present samples are 1 .. MaxSample
MaxSample == 5
\* present samples are the integers 1 .. MaxVal
MaxVal == 2
\* window sizes 1 .. MaxWin
MaxWin == 3
\* calculateValue is counted up to MaxCalls invocations per position
MaxCalls == 2

VARIABLES
    cacheSize,      \* the cacheSize given to TechnicalIndicatorBase.__init__
    cacheKind,      \* "FIFOCache" | "NoCache": the class of the cache object
    size,           \* FIFOCache.__size
    cache,          \* FIFOCache.__cache: position -> value
    pos,            \* FIFOCache.__pos: the insertion log
    raised,         \* the exception the last call raised, "" when it returned
    ret,            \* the value the last call returned
    op,             \* the last call: <<name, argument>> as integers
    putHist,        \* history: positions given to putValue by direct calls
    evictHist,      \* history: positions deleted from __cache, by those calls
                    \* and, for a watched position, by valueAt
    windowSize,     \* TechnicalIndicatorBase.__windowSize / EventWindow.__windowSize
    firstValidPos,  \* DataSeriesFilter.__firstValidPos
    hook,           \* which calculateValue override the indicator has
    ext,            \* external state the "ext" override reads: position -> result
    calls,          \* history: calculateValue invocations per lastPos
    ds,             \* the source series' values
    dsTimes,        \* the source series' dateTimes
    dsFirstValid,   \* the source series' getFirstValidPos()
    ewKind,         \* "SMA" | "EMA" | "WMA" | "EventWindow": the window's class
    values,         \* EventWindow.__values (a deque with maxlen = windowSize)
    value,          \* SMAEventWindow.__value / EMAEventWindow.__value
    weights,        \* WMAEventWindow.__weights
    out,            \* the EventBasedFilter's own values
    outTimes,       \* the EventBasedFilter's own dateTimes
    subLen          \* history: the source's length when the filter subscribed

cacheVars == <<cacheKind, size, cache, pos>>
histVars == <<putHist, evictHist>>
lazyVars == <<cacheSize, firstValidPos, hook, ext, calls>>
dsVars == <<ds, dsTimes, dsFirstValid>>
ewVars == <<ewKind, values, value, weights>>
outVars == <<out, outTimes, subLen>>
vars == <<cacheSize, cacheKind, size, cache, pos, raised, ret, op, putHist, evictHist,
          windowSize, firstValidPos, hook, ext, calls, ds, dsTimes,
          dsFirstValid, ewKind, values, value, weights, out, outTimes, subLen>>

(***************************************************************************)
(* Values.  The program computes with Python floats: IEEE 754 doubles,     *)
(* each operation rounded to nearest, ties to even.  The model computes    *)
(* the same doubles.  A number is the tuple <<s, e, l1, ..., lk>> that     *)
(* stands for  s * (l1 + l2 * 2^15 + ... + lk * 2^(15 (k - 1))) * 2^e,     *)
(* with s in {-1, 1}, an odd significand below 2^53 held in limbs of 15    *)
(* bits, least significant first; zero is <<0, 0>>.  Each double has one   *)
(* such tuple: 1.0 is <<1, 0, 1>>, 1.5 is <<1, -1, 3>>.  An int of the     *)
(* program is the double of the same value (the ints of the model are      *)
(* far below 2^53).  Exponents are not bounded: the values of the model    *)
(* are far from overflow and from the subnormal range.  Python's None is   *)
(* the empty tuple, the class Cache.ValueNotCached a one-element tuple:    *)
(* neither equals a number.                                                *)
(***************************************************************************)
None == <<>>
ValueNotCached == <<0>>

Abs(a) == IF a < 0 THEN -a ELSE a
Min(a, b) == IF a < b THEN a ELSE b

\* natural numbers of any size, as sequences of limbs below Base, least
\* significant first, without leading zero limbs
LimbBits == 15
Base == 32768
\* the bits of the significand of a double
MantBits == 53

Limb(a, i) == IF i <= Len(a) THEN a[i] ELSE 0
Zeros(n) == [i \in 1 .. n |-> 0]

RECURSIVE BTrim(_)
BTrim(a) ==
    IF a # <<>> /\ a[Len(a)] = 0 THEN BTrim(SubSeq(a, 1, Len(a) - 1)) ELSE a

RECURSIVE BFromInt(_)
BFromInt(n) == IF n = 0 THEN <<>> ELSE <<n % Base>> \o BFromInt(n \div Base)

RECURSIVE BAddFrom(_, _, _, _)
BAddFrom(a, b, i, c) ==
    IF i > Len(a) /\ i > Len(b) THEN (IF c = 0 THEN <<>> ELSE <<c>>)
    ELSE LET s == Limb(a, i) + Limb(b, i) + c
         IN <<s % Base>> \o BAddFrom(a, b, i + 1, s \div Base)
BAdd(a, b) == BAddFrom(a, b, 1, 0)

\* a - b for a >= b
RECURSIVE BSubFrom(_, _, _, _)
BSubFrom(a, b, i, borrow) ==
    IF i > Len(a) THEN <<>>
    ELSE LET d == a[i] - Limb(b, i) - borrow
         IN IF d < 0 THEN <<d + Base>> \o BSubFrom(a, b, i + 1, 1)
            ELSE <<d>> \o BSubFrom(a, b, i + 1, 0)
BSub(a, b) == BTrim(BSubFrom(a, b, 1, 0))

\* -1, 0, 1 as a is below, equal to, above b
RECURSIVE BCmpFrom(_, _, _)
BCmpFrom(a, b, i) ==
    IF i = 0 THEN 0
    ELSE IF a[i] > b[i] THEN 1
    ELSE IF a[i] < b[i] THEN -1
    ELSE BCmpFrom(a, b, i - 1)
BCmp(a, b) ==
    IF Len(a) > Len(b) THEN 1
    ELSE IF Len(a) < Len(b) THEN -1
    ELSE BCmpFrom(a, b, Len(a))

\* a * k for 0 <= k < Base
RECURSIVE BMulSmallFrom(_, _, _, _)
BMulSmallFrom(a, k, i, c) ==
    IF i > Len(a) THEN (IF c = 0 THEN <<>> ELSE <<c>>)
    ELSE LET p == a[i] * k + c
         IN <<p % Base>> \o BMulSmallFrom(a, k, i + 1, p \div Base)
BMulSmall(a, k) == IF k = 0 THEN <<>> ELSE BMulSmallFrom(a, k, 1, 0)

RECURSIVE BMulFrom(_, _, _)
BMulFrom(a, b, i) ==
    IF i > Len(b) THEN <<>>
    ELSE BAdd(Zeros(i - 1) \o BMulSmall(a, b[i]), BMulFrom(a, b, i + 1))
BMul(a, b) == BTrim(BMulFrom(a, b, 1))

\* <<quotient, remainder>> of the limbs 1 .. i of a, after a remainder r of
\* the limbs above, divided by d, 0 < d < Base
BDivStep(rest, q) == <<Append(rest[1], q), rest[2]>>
RECURSIVE BDivSmallFrom(_, _, _, _)
BDivSmallFrom(a, d, i, r) ==
    IF i = 0 THEN <<<<>>, r>>
    ELSE BDivStep(BDivSmallFrom(a, d, i - 1, (r * Base + a[i]) % d),
                  (r * Base + a[i]) \div d)
BDivSmall(a, d) ==
    LET x == BDivSmallFrom(a, d, Len(a), 0) IN <<BTrim(x[1]), x[2]>>

RECURSIVE IntBitLen(_)
IntBitLen(n) == IF n = 0 THEN 0 ELSE 1 + IntBitLen(n \div 2)
BBitLen(a) ==
    IF a = <<>> THEN 0 ELSE (Len(a) - 1) * LimbBits + IntBitLen(a[Len(a)])

\* a * 2^n and a \div 2^n
BShl(a, n) ==
    IF a = <<>> \/ n = 0 THEN a
    ELSE Zeros(n \div LimbBits) \o BMulSmall(a, 2 ^ (n % LimbBits))
BShr(a, n) ==
    IF n = 0 THEN a
    ELSE IF n \div LimbBits >= Len(a) THEN <<>>
    ELSE BDivSmall(SubSeq(a, n \div LimbBits + 1, Len(a)), 2 ^ (n % LimbBits))[1]

\* the number of zero bits below the lowest one bit of a # 0
RECURSIVE IntLowZeros(_)
IntLowZeros(n) == IF n % 2 = 1 THEN 0 ELSE 1 + IntLowZeros(n \div 2)
RECURSIVE BLowZeros(_, _)
BLowZeros(a, i) ==
    IF a[i] = 0 THEN LimbBits + BLowZeros(a, i + 1) ELSE IntLowZeros(a[i])

\* the parts of a number
Sign(x) == x[1]
Exponent(x) == x[2]
Significand(x) == SubSeq(x, 3, Len(x))

Zero == <<0, 0>>

\* the tuple of s * m * 2^e: the significand made odd
Dyadic(s, m, e) ==
    IF m = <<>> THEN Zero
    ELSE IF m[1] % 2 = 1 THEN <<s, e>> \o m
    ELSE LET z == BLowZeros(m, 1) IN <<s, e + z>> \o BShr(m, z)

\* s * m * 2^e, plus something below one unit of m when sticky, rounded to
\* the nearest double, ties to even
RoundToDouble(s, m, e, sticky) ==
    IF BBitLen(m) <= MantBits THEN Dyadic(s, m, e)
    ELSE LET sh == BBitLen(m) - MantBits
             q == BShr(m, sh)
             c == BCmp(BSub(m, BShl(q, sh)), BShl(<<1>>, sh - 1))
             up == c > 0 \/ (c = 0 /\ (sticky \/ q[1] % 2 = 1))
         IN Dyadic(s, IF up THEN BAdd(q, <<1>>) ELSE q, e + sh)

\* the exact sum, negation and product of two numbers; the result may have
\* a significand of more than 53 bits
ExactNeg(x) == <<-Sign(x)>> \o Tail(x)
ExactAdd(x, y) ==
    IF x = Zero THEN y
    ELSE IF y = Zero THEN x
    ELSE LET e == Min(Exponent(x), Exponent(y))
             mx == BShl(Significand(x), Exponent(x) - e)
             my == BShl(Significand(y), Exponent(y) - e)
             c == BCmp(mx, my)
         IN IF Sign(x) = Sign(y) THEN Dyadic(Sign(x), BAdd(mx, my), e)
            ELSE IF c = 0 THEN Zero
            ELSE IF c > 0 THEN Dyadic(Sign(x), BSub(mx, my), e)
            ELSE Dyadic(Sign(y), BSub(my, mx), e)
ExactMul(x, y) ==
    IF x = Zero \/ y = Zero THEN Zero
    ELSE Dyadic(Sign(x) * Sign(y), BMul(Significand(x), Significand(y)),
                Exponent(x) + Exponent(y))

\* an int of the program, or float(v)
Num(v) ==
    IF v = 0 THEN Zero
    ELSE Dyadic(IF v < 0 THEN -1 ELSE 1, BFromInt(Abs(v)), 0)

\* float +, -, *: the exact result, rounded
FloatRound(x) == RoundToDouble(Sign(x), Significand(x), Exponent(x), FALSE)
FloatAdd(x, y) == FloatRound(ExactAdd(x, y))
FloatSub(x, y) == FloatRound(ExactAdd(x, ExactNeg(y)))
FloatMul(x, y) == FloatRound(ExactMul(x, y))

\* x / float(n) for an int n, 0 < n < Base.  A power of two only lowers the
\* exponent, and a divisor of the significand gives an exact quotient; for
\* any other n the quotient of the significand scaled by 2^75 has more than
\* 53 bits, and the remainder says whether bits were lost below it
FloatDivInt(x, n) ==
    IF x = Zero THEN Zero
    ELSE IF n = 2 ^ IntLowZeros(n)
    THEN <<Sign(x), Exponent(x) - IntLowZeros(n)>> \o Significand(x)
    ELSE IF BDivSmall(Significand(x), n)[2] = 0
    THEN Dyadic(Sign(x), BDivSmall(Significand(x), n)[1], Exponent(x))
    ELSE LET qr == BDivSmall(Zeros(5) \o Significand(x), n)
         IN RoundToDouble(Sign(x), qr[1], Exponent(x) - 5 * LimbBits, qr[2] # 0)

TRUEVAL == <<1>>
FALSEVAL == <<2>>

(***************************************************************************)
(* Cache: FIFOCache and NoCache.                                           *)
(***************************************************************************)
Positions == 0 .. MaxPos
\* the value the k-th putValue call is given: every call stores another one,
\* so that an overwrite shows
PutArgument(k) == Num(k)

Remove(c, p) == [q \in (DOMAIN c) \ {p} |-> c[q]]

\* FIFOCache.isCached / NoCache.isCached
isCached(kind, c, p) ==
    IF kind = "FIFOCache" THEN p \in DOMAIN c ELSE FALSE

\* FIFOCache.getValue / NoCache.getValue: dict.get(pos, default)
getValue(kind, c, p, default) ==
    IF kind = "FIFOCache"
    THEN IF p \in DOMAIN c THEN c[p] ELSE default
    ELSE default

\* A plausible slip: the newest log entry is evicted (pop() for pop(0)).
putValueEvictNewest(kind, c, lg, sz, p, v) ==
    IF kind = "FIFOCache"
    THEN LET c1 == (p :> v) @@ c
             l1 == Append(lg, p)
         IN IF Cardinality(DOMAIN c1) > sz
            THEN [cache |-> Remove(c1, l1[Len(l1)]),
                  pos |-> SubSeq(l1, 1, Len(l1) - 1),
                  raised |-> "", evicted |-> <<l1[Len(l1)]>>]
            ELSE [cache |-> c1, pos |-> l1, raised |-> "", evicted |-> <<>>]
    ELSE [cache |-> c, pos |-> lg, raised |-> "", evicted |-> <<>>]

\* FIFOCache.putValue / NoCache.putValue.  The result is the object's state
\* when the call ends: "raised" is "KeyError" when the del of line 57 finds
\* the popped position no longer in the dict (the pop has then happened and
\* the insertion of line 52 stays).
putValue(kind, c, lg, sz, p, v) ==
    IF kind = "FIFOCache"
    THEN LET c1 == (p :> v) @@ c
             l1 == Append(lg, p)
         IN IF Cardinality(DOMAIN c1) > sz
            THEN IF Head(l1) \in DOMAIN c1
                 THEN [cache |-> Remove(c1, Head(l1)), pos |-> Tail(l1),
                       raised |-> "", evicted |-> <<Head(l1)>>]
                 ELSE [cache |-> c1, pos |-> Tail(l1),
                       raised |-> "KeyError", evicted |-> <<>>]
            ELSE [cache |-> c1, pos |-> l1, raised |-> "", evicted |-> <<>>]
    ELSE [cache |-> c, pos |-> lg, raised |-> "", evicted |-> <<>>]

\* names of the calls recorded in op
OpInit == 0
OpIsCached == 1
OpGetValue == 2
OpPutValue == 3
OpValueAt == 4
OpAppend == 5
OpExt == 6

EmptyMap == [q \in {} |-> None]

\* the parts of the state a cache that is driven directly does not use
NoIndicator ==
    /\ windowSize = 1 /\ cacheSize = 0 /\ firstValidPos = 0 /\ hook = "none"
    /\ ext = EmptyMap /\ calls = EmptyMap
NoSeries == ds = <<>> /\ dsTimes = <<>> /\ dsFirstValid = 0
NoWindow == ewKind = "none" /\ values = <<>> /\ value = None /\ weights = <<>>
NoOutput == out = <<>> /\ outTimes = <<>> /\ subLen = 0

\* FIFOCache.__init__(size) with size > 0, or NoCache()
InitCache ==
    /\ \/ cacheKind = "FIFOCache" /\ size \in 1 .. MaxCache
       \/ cacheKind = "NoCache" /\ size = 0
    /\ cache = EmptyMap /\ pos = <<>>
    /\ raised = "" /\ ret = None /\ op = <<OpInit, 0>>
    /\ putHist = <<>> /\ evictHist = <<>>
    /\ NoIndicator /\ NoSeries /\ NoWindow /\ NoOutput

IsCachedCall(p) ==
    /\ ret' = IF isCached(cacheKind, cache, p) THEN TRUEVAL ELSE FALSEVAL
    /\ raised' = "" /\ op' = <<OpIsCached, p>>
    /\ UNCHANGED <<cacheVars, histVars, windowSize, lazyVars, dsVars, ewVars, outVars>>

GetValueCall(p) ==
    /\ ret' = getValue(cacheKind, cache, p, ValueNotCached)
    /\ raised' = "" /\ op' = <<OpGetValue, p>>
    /\ UNCHANGED <<cacheVars, histVars, windowSize, lazyVars, dsVars, ewVars, outVars>>

PutValueCall(p, v) ==
    /\ Len(putHist) < MaxPuts
    /\ LET r == putValue(cacheKind, cache, pos, size, p, v)
       IN /\ cache' = r.cache /\ pos' = r.pos /\ raised' = r.raised
          /\ evictHist' = evictHist \o r.evicted
    /\ putHist' = Append(putHist, p)
    /\ ret' = None /\ op' = <<OpPutValue, p>>
    /\ UNCHANGED <<cacheKind, size, windowSize, lazyVars, dsVars, ewVars, outVars>>

NextCache ==
    \/ \E p \in Positions : IsCachedCall(p)
    \/ \E p \in Positions : GetValueCall(p)
    \/ \E p \in Positions : PutValueCall(p, PutArgument(Len(putHist) + 1))

SpecCache == InitCache /\ [][NextCache]_vars

(***************************************************************************)
(* ma.calculate_sma.                                                       *)
(***************************************************************************)
\* the loop of lines 25-29 from index i (0-based) on: None as soon as a
\* value is None, the sum otherwise
RECURSIVE SmaAccum(_, _, _, _)
SmaAccum(vals, i, end, accum) ==
    IF i >= end THEN accum
    ELSE IF vals[i + 1] = None THEN None
    ELSE SmaAccum(vals, i + 1, end, FloatAdd(accum, vals[i + 1]))

\* calculate_sma(values, begin, end): the average of values[begin:end]
calculate_sma(vals, begin, end) ==
    LET accum == SmaAccum(vals, begin, end, Num(0))
    IN IF accum = None THEN None ELSE FloatDivInt(accum, end - begin)

(***************************************************************************)
(* EventWindow and the SMA, EMA and WMA windows.                           *)
(***************************************************************************)
\* A plausible slip: a missing value is buffered, as a zero.
EventWindow_onNewValueNoneAsZero(vals, n, v) ==
    LET x == IF v = None THEN Num(0) ELSE v
    IN IF Len(vals) = n THEN Append(Tail(vals), x) ELSE Append(vals, x)

\* A plausible slip: the deque has no maxlen.
EventWindow_onNewValueUnbounded(vals, n, v) ==
    IF v # None THEN Append(vals, v) ELSE vals

\* EventWindow.onNewValue: deque(maxlen = windowSize).append for a present value
EventWindow_onNewValue(vals, n, v) ==
    IF v # None
    THEN IF Len(vals) = n THEN Append(Tail(vals), v) ELSE Append(vals, v)
    ELSE vals

\* SMAEventWindow.onNewValue
SMA_onNewValue(vals, val, n, v) ==
    LET firstValue == IF Len(vals) > 0 THEN vals[1] ELSE None
    IN IF Len(vals) > 0 /\ firstValue = None
       THEN [values |-> vals, value |-> val, raised |-> "AssertionError"]
       ELSE LET vals1 == EventWindow_onNewValue(vals, n, v)
            IN IF v # None /\ Len(vals1) = n
               THEN IF val = None
                    THEN [values |-> vals1, value |-> calculate_sma(vals1, 0, n),
                          raised |-> ""]
                    ELSE [values |-> vals1,
                          value |-> FloatSub(FloatAdd(val, FloatDivInt(v, n)),
                                           FloatDivInt(firstValue, n)),
                          raised |-> ""]
               ELSE [values |-> vals1, value |-> val, raised |-> ""]

\* A plausible slip: the multiplier is 2 / period.
MultiplierOverPeriod(n) == FloatDivInt(Num(2), n)

\* EMAEventWindow.__multiplier
Multiplier(n) == FloatDivInt(Num(2), n + 1)

\* EMAEventWindow.onNewValue
EMA_onNewValue(vals, val, n, v) ==
    LET vals1 == EventWindow_onNewValue(vals, n, v)
    IN IF v # None /\ Len(vals1) = n
       THEN IF val = None
            THEN [values |-> vals1, value |-> calculate_sma(vals1, 0, Len(vals1)),
                  raised |-> ""]
            ELSE [values |-> vals1,
                  value |-> FloatAdd(FloatMul(FloatSub(v, val), Multiplier(n)), val),
                  raised |-> ""]
       ELSE [values |-> vals1, value |-> val, raised |-> ""]

\* A plausible slip: the newest value is paired with the first weight.
RECURSIVE WmaAccumNewestFirst(_, _, _, _, _)
WmaAccumNewestFirst(vals, w, i, accum, weightSum) ==
    IF i > Len(vals) THEN <<accum, weightSum>>
    ELSE WmaAccumNewestFirst(vals, w, i + 1,
                             FloatAdd(accum, FloatMul(vals[Len(vals) + 1 - i], Num(w[i]))),
                             weightSum + w[i])

\* the loop of lines 128-131: <<accum, weightSum>> over the buffer from i on
RECURSIVE WmaAccum(_, _, _, _, _)
WmaAccum(vals, w, i, accum, weightSum) ==
    IF i > Len(vals) THEN <<accum, weightSum>>
    ELSE WmaAccum(vals, w, i + 1,
                  FloatAdd(accum, FloatMul(vals[i], Num(w[i]))), weightSum + w[i])

\* WMAEventWindow.getValue
WMA_getValue(vals, w, n) ==
    IF Len(vals) = n
    THEN LET a == WmaAccum(vals, w, 1, Num(0), 0)
         IN IF a[2] = 0
            THEN [value |-> None, raised |-> "ZeroDivisionError"]
            ELSE [value |-> FloatDivInt(a[1], a[2]), raised |-> ""]
    ELSE [value |-> None, raised |-> ""]

\* <window>.onNewValue for the window class at hand
Window_onNewValue(kind, vals, val, n, v) ==
    IF kind = "SMA" THEN SMA_onNewValue(vals, val, n, v)
    ELSE IF kind = "EMA" THEN EMA_onNewValue(vals, val, n, v)
    ELSE [values |-> EventWindow_onNewValue(vals, n, v), value |-> val, raised |-> ""]

\* <window>.getValue for the window class at hand; EventWindow itself has
\* none
Window_getValue(kind, vals, val, w, n) ==
    IF kind = "WMA" THEN WMA_getValue(vals, w, n)
    ELSE IF kind = "EventWindow"
    THEN [value |-> None, raised |-> "NotImplementedError"]
    ELSE [value |-> val, raised |-> ""]

\* A plausible slip: the handler appends nothing while the window has no value.
FilterOnNewValueSkipsNone(kind, vals, val, w, n, o, ot, dateTime, v) ==
    LET a == Window_onNewValue(kind, vals, val, n, v)
        g == Window_getValue(kind, a.values, a.value, w, n)
    IN IF g.value = None
       THEN [values |-> a.values, value |-> a.value, out |-> o, outTimes |-> ot,
             raised |-> ""]
       ELSE [values |-> a.values, value |-> a.value, out |-> Append(o, g.value),
             outTimes |-> Append(ot, dateTime), raised |-> ""]

\* EventBasedFilter.__onNewValue: the window, then getValue, then
\* appendWithDateTime on the filter's own series; an exception of a step ends
\* the handler there.
FilterOnNewValue(kind, vals, val, w, n, o, ot, dateTime, v) ==
    LET a == Window_onNewValue(kind, vals, val, n, v)
    IN IF a.raised # ""
       THEN [values |-> a.values, value |-> a.value, out |-> o, outTimes |-> ot,
             raised |-> a.raised]
       ELSE LET g == Window_getValue(kind, a.values, a.value, w, n)
            IN IF g.raised # ""
               THEN [values |-> a.values, value |-> a.value, out |-> o,
                     outTimes |-> ot, raised |-> g.raised]
               ELSE [values |-> a.values, value |-> a.value,
                     out |-> Append(o, g.value), outTimes |-> Append(ot, dateTime),
                     raised |-> ""]

(***************************************************************************)
(* The source series (pyalgotrade.dataseries.SequenceDataSeries): an       *)
(* append-only sequence that calls its subscribers, synchronously, once    *)
(* per appended sample.  A sample is None or an integer.                   *)
(***************************************************************************)
Samples == {None} \cup {Num(v) : v \in 1 .. MaxVal}

\* the samples the source is given: only the "sma" override reads them
SamplesFor(h) == IF h = "sma" THEN Samples ELSE {Num(1)}

\* the new-value event of the source: the subscribed EventBasedFilter has
\* run, with the result r
Notified(r) ==
    /\ values' = r.values /\ value' = r.value
    /\ out' = r.out /\ outTimes' = r.outTimes
    /\ raised' = r.raised

\* SequenceDataSeries.append: the sample and its dateTime are stored, then the
\* new-value event calls the subscribed EventBasedFilter, if there is one
AppendCall(v) ==
    /\ ds' = Append(ds, v)
    /\ dsTimes' = Append(dsTimes, Len(ds) + 1)
    /\ IF ewKind = "none"
       THEN /\ raised' = ""
            /\ UNCHANGED <<values, value, out, outTimes>>
       ELSE Notified(FilterOnNewValue(ewKind, values, value, weights,
                                      windowSize, out, outTimes, Len(ds) + 1, v))
    /\ ret' = None /\ op' = <<OpAppend, 0>>
    /\ UNCHANGED <<cacheVars, histVars, windowSize, lazyVars, dsFirstValid,
                   ewKind, weights, subLen>>

(***************************************************************************)
(* TechnicalIndicatorBase / DataSeriesFilter: the lazy indicator.          *)
(***************************************************************************)
\* TechnicalIndicatorBase.DefaultCacheSize: the capacity when none is given,
\* which is the capacity of every DataSeriesFilter.  It exceeds the length of
\* every series of the model; a cache that large never evicts.
DefaultCacheSize == 512

\* the cacheSize an indicator is built with: DataSeriesFilter.__init__ passes
\* none and gets DefaultCacheSize, a subclass of TechnicalIndicatorBase may
\* pass any
CacheSizeArguments == (-1 .. MaxCache) \cup {DefaultCacheSize}

\* the cache class TechnicalIndicatorBase.__init__ picks for a cacheSize
CacheKindFor(cs) == IF cs > 0 THEN "FIFOCache" ELSE "NoCache"

\* A plausible slip: the window size is left out of the first valid position.
FirstValidPosOfSource(n, srcFirstValid) == srcFirstValid

\* DataSeriesFilter.__init__: the first valid position
FirstValidPosFor(n, srcFirstValid) == (n - 1) + srcFirstValid

\* DataSeriesFilter.getLength
getLength(src) == Len(src)

\* TechnicalIndicatorBase.calculateValue(firstPos, lastPos): the method a
\* subclass has to override; as it stands it raises
calculateValue(firstPos, lastPos) ==
    [value |-> None, raised |-> "Exception"]

\* an override of calculateValue: the direct average of the source's samples
\* firstPos .. lastPos
calculateValueSma(src, firstPos, lastPos) ==
    [value |-> calculate_sma(src, firstPos, lastPos + 1), raised |-> ""]

\* an override of calculateValue whose result depends on state outside the
\* indicator and the series
calculateValueExt(e, firstPos, lastPos) ==
    [value |-> e[lastPos], raised |-> ""]

\* self.calculateValue(firstPos, lastPos): the method of the instance's
\* class, "base" being a class that does not override it
CallCalculateValue(h, src, e, firstPos, lastPos) ==
    IF h = "sma" THEN calculateValueSma(src, firstPos, lastPos)
    ELSE IF h = "ext" THEN calculateValueExt(e, firstPos, lastPos)
    ELSE calculateValue(firstPos, lastPos)

\* the result of a call that calculateValue ended with an exception
Failed(c, lg, exc) ==
    [ret |-> None, cache |-> c, pos |-> lg, raised |-> exc, evicted |-> <<>>,
     calculated |-> TRUE]

\* the result of a call that found nothing to do
Untouched(c, lg, r, exc) ==
    [ret |-> r, cache |-> c, pos |-> lg, raised |-> exc, evicted |-> <<>>,
     calculated |-> FALSE]

\* A plausible slip: the cache is not consulted.
LookupOrCalculateNoLookup(kind, c, lg, sz, n, h, src, e, p) ==
    LET cv == CallCalculateValue(h, src, e, p - n + 1, p)
        r == cv.value
        w == putValue(kind, c, lg, sz, p, r)
    IN IF cv.raised # ""
       THEN Failed(c, lg, cv.raised)
       ELSE IF r # None
       THEN [ret |-> r, cache |-> w.cache, pos |-> w.pos, raised |-> "",
             evicted |-> w.evicted, calculated |-> TRUE]
       ELSE [ret |-> r, cache |-> c, pos |-> lg, raised |-> "",
             evicted |-> <<>>, calculated |-> TRUE]

\* A plausible slip: a None result is cached like any other.
LookupOrCalculateCachesNone(kind, c, lg, sz, n, h, src, e, p) ==
    LET got == getValue(kind, c, p, ValueNotCached)
    IN IF got = ValueNotCached
       THEN LET cv == CallCalculateValue(h, src, e, p - n + 1, p)
                r == cv.value
                w == putValue(kind, c, lg, sz, p, r)
            IN IF cv.raised # ""
               THEN Failed(c, lg, cv.raised)
               ELSE [ret |-> r, cache |-> w.cache, pos |-> w.pos,
                     raised |-> w.raised, evicted |-> w.evicted,
                     calculated |-> TRUE]
       ELSE Untouched(c, lg, got, "")

\* A plausible slip: the calculated value is returned without being cached.
LookupOrCalculateNoPut(kind, c, lg, sz, n, h, src, e, p) ==
    LET got == getValue(kind, c, p, ValueNotCached)
    IN IF got = ValueNotCached
       THEN IF p - n + 1 < 0
            THEN Untouched(c, lg, None, "AssertionError")
            ELSE LET cv == CallCalculateValue(h, src, e, p - n + 1, p)
                 IN IF cv.raised # ""
                    THEN Failed(c, lg, cv.raised)
                    ELSE [ret |-> cv.value, cache |-> c, pos |-> lg,
                          raised |-> "", evicted |-> <<>>,
                          calculated |-> TRUE]
       ELSE Untouched(c, lg, got, "")

\* A plausible slip: the value is cached under the first position of its range.
LookupOrCalculateKeyedByFirst(kind, c, lg, sz, n, h, src, e, p) ==
    LET got == getValue(kind, c, p, ValueNotCached)
    IN IF got = ValueNotCached
       THEN IF p - n + 1 < 0
            THEN Untouched(c, lg, None, "AssertionError")
            ELSE LET cv == CallCalculateValue(h, src, e, p - n + 1, p)
                     r == cv.value
                     w == putValue(kind, c, lg, sz, p - n + 1, r)
                 IN IF cv.raised # ""
                    THEN Failed(c, lg, cv.raised)
                    ELSE IF r # None
                    THEN [ret |-> r, cache |-> w.cache, pos |-> w.pos,
                          raised |-> w.raised, evicted |-> w.evicted,
                          calculated |-> TRUE]
                    ELSE [ret |-> r, cache |-> c, pos |-> lg, raised |-> "",
                          evicted |-> <<>>, calculated |-> TRUE]
       ELSE Untouched(c, lg, got, "")

\* getValueAbsolute past its bounds check (lines 147-158): the cached value,
\* or the calculated one, which is cached unless it is None; an exception of
\* calculateValue ends the call with nothing cached
LookupOrCalculate(kind, c, lg, sz, n, h, src, e, p) ==
    LET got == getValue(kind, c, p, ValueNotCached)
    IN IF got = ValueNotCached
       THEN LET firstPos == p - n + 1
            IN IF firstPos < 0
               THEN Untouched(c, lg, None, "AssertionError")
               ELSE LET cv == CallCalculateValue(h, src, e, firstPos, p)
                        r == cv.value
                    IN IF cv.raised # ""
                       THEN Failed(c, lg, cv.raised)
                       ELSE IF r # None
                       THEN LET w == putValue(kind, c, lg, sz, p, r)
                            IN [ret |-> IF w.raised = "" THEN r ELSE None,
                                cache |-> w.cache, pos |-> w.pos,
                                raised |-> w.raised, evicted |-> w.evicted,
                                calculated |-> TRUE]
                       ELSE [ret |-> r, cache |-> c, pos |-> lg,
                             raised |-> "", evicted |-> <<>>,
                             calculated |-> TRUE]
       ELSE Untouched(c, lg, got, "")

\* A plausible slip: the lower bound of the position is not checked.
getValueAbsoluteNoLowerBound(kind, c, lg, sz, n, fvp, h, src, e, p) ==
    IF p >= getLength(src)
    THEN Untouched(c, lg, None, "")
    ELSE LookupOrCalculate(kind, c, lg, sz, n, h, src, e, p)

\* TechnicalIndicatorBase.getValueAbsolute(pos): the value returned, the
\* cache when the call ends, the exception raised, and whether calculateValue
\* was invoked
getValueAbsolute(kind, c, lg, sz, n, fvp, h, src, e, p) ==
    IF p < fvp \/ p >= getLength(src)
    THEN Untouched(c, lg, None, "")
    ELSE LookupOrCalculate(kind, c, lg, sz, n, h, src, e, p)

\* positions a caller asks for: in and out of bounds
QueryPositions == -1 .. MaxLen

\* getValueAbsolute(p) has run, with the result r; the histories record the
\* calculateValue invocations for, and the evictions of, a watched position
ValueAtDone(p, r) ==
    /\ (r.calculated /\ p \in DOMAIN calls) => calls[p] < MaxCalls
    /\ cache' = r.cache /\ pos' = r.pos
    /\ raised' = r.raised /\ ret' = r.ret
    /\ calls' = IF r.calculated /\ p \in DOMAIN calls
                THEN [calls EXCEPT ![p] = @ + 1] ELSE calls
    /\ evictHist' = IF r.evicted # <<>> /\ r.evicted[1] \in DOMAIN calls
                    THEN evictHist \o r.evicted ELSE evictHist
    /\ op' = <<OpValueAt, p>>
    /\ UNCHANGED <<cacheKind, size, putHist, windowSize, cacheSize,
                   firstValidPos, hook, ext, dsVars, ewVars, outVars>>

\* the indicator's valueAt(pos)
ValueAtCall(p) ==
    ValueAtDone(p, getValueAbsolute(cacheKind, cache, pos, size, windowSize,
                                    firstValidPos, hook, ds, ext, p))

\* state outside the indicator changes: the result for position p of the
\* series, absent so far, becomes v
ExtBecomes(p, v) ==
    /\ hook = "ext"
    /\ p < getLength(ds) /\ ext[p] = None
    /\ ext' = [ext EXCEPT ![p] = v]
    /\ raised' = "" /\ ret' = None /\ op' = <<OpExt, 0>>
    /\ UNCHANGED <<cacheVars, histVars, windowSize, cacheSize, firstValidPos,
                   hook, calls, dsVars, ewVars, outVars>>

SeriesPositions == 0 .. MaxLen - 1
\* the result the "ext" override comes to have for position p
ExtValue(p) == Num(p + 1)

\* an indicator built on an empty source: window size n > 0, the cacheSize
\* it is built with, the first valid position of DataSeriesFilter; calls
\* counts the calculateValue invocations for the positions of one set of
\* watched
InitIndicator(hooks, srcFirstValids, watched) ==
    /\ windowSize \in 1 .. MaxWin
    /\ cacheSize \in CacheSizeArguments
    /\ cacheKind = CacheKindFor(cacheSize)
    /\ size = IF cacheSize > 0 THEN cacheSize ELSE 0
    /\ cache = EmptyMap /\ pos = <<>>
    /\ dsFirstValid \in srcFirstValids
    /\ firstValidPos = FirstValidPosFor(windowSize, dsFirstValid)
    /\ hook \in hooks
    /\ ext = [q \in SeriesPositions |-> None]
    /\ \E W \in watched : calls = [w \in W |-> 0]
    /\ ds = <<>> /\ dsTimes = <<>>
    /\ raised = "" /\ ret = None /\ op = <<OpInit, 0>>
    /\ putHist = <<>> /\ evictHist = <<>>

InitLazy ==
    /\ InitIndicator({"base", "ext"}, 0 .. 1, {{w} : w \in SeriesPositions})
    /\ NoWindow /\ NoOutput

NextLazy ==
    \/ \E v \in SamplesFor(hook) : Len(ds) < MaxLen /\ AppendCall(v)
    \/ \E p \in QueryPositions : ValueAtCall(p)
    \/ \E p \in SeriesPositions : ExtBecomes(p, ExtValue(p))

SpecLazy == InitLazy /\ [][NextLazy]_vars

(***************************************************************************)
(* The push filters: SMA, EMA and WMA (EventBasedFilter over a window).    *)
(***************************************************************************)
WeightLists == {<<1>>, <<1, 2>>, <<2, 1>>, <<1, 2, 3>>}

SeqsUpTo(S, n) == UNION {[1 .. k -> S] : k \in 0 .. n}

\* the parts of the state a push filter does not use
NoCacheObject ==
    /\ cacheSize = 0 /\ cacheKind = "NoCache" /\ size = 0
    /\ cache = EmptyMap /\ pos = <<>>
    /\ firstValidPos = 0 /\ hook = "none" /\ ext = EmptyMap /\ calls = EmptyMap

\* SMAEventWindow(period), EMAEventWindow(period), WMAEventWindow(weights)
InitWindow(kinds) ==
    /\ ewKind \in kinds
    /\ \/ ewKind = "SMA" /\ windowSize \in 1 .. MaxWin /\ weights = <<>>
       \/ ewKind = "EMA" /\ windowSize \in 2 .. MaxWin /\ weights = <<>>
       \/ ewKind = "WMA" /\ weights \in WeightLists /\ windowSize = Len(weights)
    /\ values = <<>> /\ value = None

\* EventBasedFilter.__init__: an empty series of its own, subscribed to a
\* source that holds the samples src already
InitFilter(src) ==
    /\ ds = src /\ dsTimes = [i \in 1 .. Len(src) |-> i] /\ dsFirstValid = 0
    /\ out = <<>> /\ outTimes = <<>> /\ subLen = Len(src)

InitPush ==
    /\ InitWindow({"SMA", "EMA", "WMA"})
    /\ \E src \in SeqsUpTo(Samples, MaxInit) : InitFilter(src)
    /\ NoCacheObject
    /\ raised = "" /\ ret = None /\ op = <<OpInit, 0>>
    /\ putHist = <<>> /\ evictHist = <<>>

NextPush == \E v \in Samples : Len(ds) < MaxPush /\ AppendCall(v)

SpecPush == InitPush /\ [][NextPush]_vars

\* the SMA filter alone, on a source that is empty when it subscribes
WideSamples == {None} \cup {Num(v) : v \in 1 .. MaxSample}

InitSMA ==
    /\ InitWindow({"SMA"})
    /\ InitFilter(<<>>)
    /\ NoCacheObject
    /\ raised = "" /\ ret = None /\ op = <<OpInit, 0>>
    /\ putHist = <<>> /\ evictHist = <<>>

NextSMA == \E v \in WideSamples : Len(ds) < MaxPush /\ AppendCall(v)

SpecSMA == InitSMA /\ [][NextSMA]_vars

\* the SMA filter and a lazy indicator whose calculateValue is calculate_sma,
\* over one source that is empty when both are built
InitBoth ==
    /\ InitIndicator({"sma"}, {0}, {{}})
    /\ ewKind = "SMA" /\ weights = <<>> /\ values = <<>> /\ value = None
    /\ NoOutput

NextBoth ==
    \/ \E v \in Samples : Len(ds) < MaxBoth /\ AppendCall(v)
    \/ \E p \in -1 .. MaxBoth : ValueAtCall(p)

SpecBoth == InitBoth /\ [][NextBoth]_vars

\* a lazy indicator whose calculateValue is calculate_sma, alone over a source
\* that is empty when it is built
InitPull ==
    /\ InitIndicator({"sma"}, {0}, {{w} : w \in SeriesPositions})
    /\ NoWindow /\ NoOutput

\* the samples its source is given: a missing one and two that differ
PullSamples == {None, Num(1), Num(2)}

NextPull ==
    \/ \E v \in PullSamples : Len(ds) < MaxLen /\ AppendCall(v)
    \/ \E p \in QueryPositions : ValueAtCall(p)

SpecPull == InitPull /\ [][NextPull]_vars

(***************************************************************************)
(* Construction: every constructor called with arguments of any sign.  A   *)
(* constructor that raises leaves no instance: the state keeps the         *)
(* arguments it was given and no call follows.                             *)
(***************************************************************************)
\* FIFOCache.__init__: assert(size > 0)
FIFOCache_init(sz) == IF sz > 0 THEN "" ELSE "AssertionError"

\* EventWindow.__init__: assert(windowSize > 0)
EventWindow_init(n) == IF n > 0 THEN "" ELSE "AssertionError"

\* SMAEventWindow.__init__: assert(period > 0), then EventWindow.__init__
SMAEventWindow_init(period) ==
    IF period > 0 THEN EventWindow_init(period) ELSE "AssertionError"

\* A plausible slip: the EMA window asserts period > 0, as the SMA window does.
EMAEventWindow_initPositive(period) ==
    IF period > 0 THEN EventWindow_init(period) ELSE "AssertionError"

\* EMAEventWindow.__init__: assert(period > 1), then EventWindow.__init__
EMAEventWindow_init(period) ==
    IF period > 1 THEN EventWindow_init(period) ELSE "AssertionError"

\* WMAEventWindow.__init__: assert(len(weights) > 0), then EventWindow.__init__
WMAEventWindow_init(w) ==
    IF Len(w) > 0 THEN EventWindow_init(Len(w)) ELSE "AssertionError"

\* TechnicalIndicatorBase.__init__: assert(windowSize > 0), then FIFOCache for
\* a cacheSize > 0 and NoCache for any other
TechnicalIndicatorBase_init(n, cs) ==
    IF n > 0
    THEN IF cs > 0 THEN FIFOCache_init(cs) ELSE ""
    ELSE "AssertionError"

\* the arguments constructors are given
SizeArguments == -1 .. MaxCache
WindowArguments == -1 .. MaxWin
WeightArguments == WeightLists \cup {<<>>}

\* FIFOCache(size), on its own
ConstructCache ==
    /\ cacheKind = "FIFOCache" /\ size \in SizeArguments
    /\ cache = EmptyMap /\ pos = <<>>
    /\ raised = FIFOCache_init(size)
    /\ NoIndicator /\ NoSeries /\ NoWindow /\ NoOutput

\* TechnicalIndicatorBase(windowSize, cacheSize), over calculate_sma and an
\* empty source
ConstructIndicator ==
    /\ windowSize \in WindowArguments
    /\ cacheSize \in SizeArguments \cup {DefaultCacheSize}
    /\ raised = TechnicalIndicatorBase_init(windowSize, cacheSize)
    /\ cacheKind = CacheKindFor(cacheSize)
    /\ size = IF cacheSize > 0 THEN cacheSize ELSE 0
    /\ cache = EmptyMap /\ pos = <<>>
    /\ firstValidPos = FirstValidPosFor(windowSize, 0)
    /\ hook = "sma" /\ ext = EmptyMap /\ calls = EmptyMap
    /\ NoSeries /\ NoWindow /\ NoOutput

\* EventWindow(windowSize), SMAEventWindow(period), EMAEventWindow(period) or
\* WMAEventWindow(weights), for an EventBasedFilter over an empty source
ConstructWindow ==
    /\ ewKind \in {"EventWindow", "SMA", "EMA", "WMA"}
    /\ \/ /\ ewKind = "EventWindow" /\ windowSize \in WindowArguments
          /\ weights = <<>> /\ raised = EventWindow_init(windowSize)
       \/ /\ ewKind = "SMA" /\ windowSize \in WindowArguments
          /\ weights = <<>> /\ raised = SMAEventWindow_init(windowSize)
       \/ /\ ewKind = "EMA" /\ windowSize \in WindowArguments
          /\ weights = <<>> /\ raised = EMAEventWindow_init(windowSize)
       \/ /\ ewKind = "WMA" /\ weights \in WeightArguments
          /\ windowSize = Len(weights) /\ raised = WMAEventWindow_init(weights)
    /\ values = <<>> /\ value = None
    /\ InitFilter(<<>>)
    /\ NoCacheObject

InitConstruct ==
    /\ ConstructCache \/ ConstructIndicator \/ ConstructWindow
    /\ ret = None /\ op = <<OpInit, 0>>
    /\ putHist = <<>> /\ evictHist = <<>>

\* the constructor returned: there is an instance
Constructed == ~(op = <<OpInit, 0>> /\ raised # "")

\* the calls an instance of each class can be given
NextConstruct ==
    /\ Constructed
    /\ \/ /\ hook = "none" /\ ewKind = "none"
          /\ \E p \in Positions :
                \/ IsCachedCall(p)
                \/ PutValueCall(p, PutArgument(Len(putHist) + 1))
       \/ /\ hook # "none" \/ ewKind # "none"
          /\ \E v \in Samples : Len(ds) < MaxLen /\ AppendCall(v)
       \/ /\ hook # "none"
          /\ \E p \in QueryPositions : ValueAtCall(p)

SpecConstruct == InitConstruct /\ [][NextConstruct]_vars

(***************************************************************************)
(* Claims about the lazy indicator (SpecLazy).                             *)
(***************************************************************************)
InBounds(p) == firstValidPos <= p /\ p < getLength(ds)

\* what calculateValue returns for position p in the current state
Computed(p) == CallCalculateValue(hook, ds, ext, p - windowSize + 1, p).value

\* C1: while a position p is cached no step invokes calculateValue for it, and
\* a valueAt(p) returns the cached value; with the cache disabled (NoCache)
\* every in-bounds valueAt(p) invokes calculateValue.
C1_CacheSoundness ==
    [][/\ \A q \in DOMAIN calls :
              isCached(cacheKind, cache, q) => calls'[q] = calls[q]
       /\ \A p \in QueryPositions :
              (ValueAtCall(p) /\ isCached(cacheKind, cache, p))
                  => ret' = cache[p] /\ cache' = cache
       /\ \A p \in DOMAIN calls :
              (ValueAtCall(p) /\ cacheKind = "NoCache" /\ InBounds(p))
                  => calls'[p] = calls[p] + 1]_vars

\* C1's case: valueAt(p) has returned the cached value of a position that was
\* calculated once.
C1_Witness ==
    /\ cacheKind = "FIFOCache"
    /\ \E p \in DOMAIN calls :
          /\ op = <<OpValueAt, p>> /\ calls[p] = 1
          /\ isCached(cacheKind, cache, p) /\ ret = cache[p]
          /\ Cardinality(DOMAIN cache) = 2

\* C5: valueAt(pos) with pos < firstValidPos() or pos >= length() returns
\* absent, does not invoke calculateValue and leaves the cache as it is.
C5_Bounds ==
    [][\A p \in QueryPositions :
          (ValueAtCall(p) /\ ~InBounds(p))
              => /\ ret' = None /\ raised' = ""
                 /\ calls' = calls
                 /\ cache' = cache /\ pos' = pos]_vars

\* C5's case: a position past the end of a non-empty series, and one before
\* the first valid position, were asked for while the cache held a value.
C5_Witness ==
    /\ op[1] = OpValueAt /\ ~InBounds(op[2]) /\ ret = None
    /\ op[2] \in DOMAIN calls /\ calls[op[2]] = 0
    /\ getLength(ds) > 0 /\ cache # EmptyMap
    /\ op[2] >= getLength(ds) \/ (0 <= op[2] /\ op[2] < firstValidPos)

\* C6: a valueAt(p) whose calculateValue returns absent leaves p uncached; a
\* valueAt(p) on an uncached p whose calculateValue yields a present value
\* invokes calculateValue, returns that value and hands it to the cache (a
\* FIFOCache then holds it); the cache never holds an absent value.
C6_NoMemoOfAbsent ==
    [][/\ \A p \in QueryPositions :
              (ValueAtCall(p) /\ InBounds(p) /\ ~isCached(cacheKind, cache, p))
                  => /\ p \in DOMAIN calls => calls'[p] = calls[p] + 1
                     /\ ret' = Computed(p)
                     /\ Computed(p) = None => cache' = cache /\ pos' = pos
                     /\ (Computed(p) # None /\ cacheKind = "FIFOCache")
                            => isCached(cacheKind, cache', p) /\ cache'[p] = Computed(p)
       /\ \A q \in DOMAIN cache' : cache'[q] # None]_vars

\* C6's case: the only valid position of the series was asked for twice; the
\* first calculateValue returned absent, the second a present value, which
\* was returned and is cached.
C6_Witness ==
    /\ cacheKind = "FIFOCache"
    /\ getLength(ds) = firstValidPos + 1
    /\ op = <<OpValueAt, firstValidPos>>
    /\ firstValidPos \in DOMAIN calls /\ calls[firstValidPos] = 2
    /\ ret # None /\ ret = ext[firstValidPos]
    /\ isCached(cacheKind, cache, firstValidPos) /\ cache[firstValidPos] = ret

(***************************************************************************)
(* Claims about the push filters (SpecPush, SpecSMA, SpecBoth).            *)
(***************************************************************************)
\* the number of present samples among sq[1 .. i]
RECURSIVE CountPresent(_, _)
CountPresent(sq, i) ==
    IF i = 0 THEN 0
    ELSE CountPresent(sq, i - 1) + (IF sq[i] = None THEN 0 ELSE 1)

\* the present samples the filter has been given since it subscribed
PresentPushed == CountPresent(ds, Len(ds)) - CountPresent(ds, subLen)

\* the derived value the window holds: what getValue() returns
HeldValue == Window_getValue(ewKind, values, value, weights, windowSize).value

\* ... and what it returns in the next state
HeldValueNext ==
    Window_getValue(ewKind', values', value', weights', windowSize').value

RECURSIVE SeqSum(_)
SeqSum(sq) == IF sq = <<>> THEN Zero ELSE ExactAdd(sq[1], SeqSum(Tail(sq)))

\* C7: for the SMA, EMA and WMA windows, pushing a missing sample leaves the
\* buffer and the held derived value unchanged, and the buffer becomes full
\* exactly when the N-th present sample is pushed.
C7_MissingSamples ==
    [][/\ ds' = Append(ds, None)
            => values' = values /\ value' = value /\ HeldValueNext = HeldValue
       /\ (Len(values') = windowSize) <=> (PresentPushed' >= windowSize)
       /\ (Len(values) < windowSize /\ Len(values') = windowSize)
            => ds'[Len(ds')] # None /\ PresentPushed' = windowSize]_vars

\* C7's case: a window of size N >= 2 that filled on its N-th present sample
\* with a missing sample in between, and was then given a missing sample.
C7_Witness ==
    /\ ewKind = "EMA" /\ op[1] = OpAppend
    /\ ds # <<>> /\ ds[Len(ds)] = None
    /\ Len(values) = windowSize /\ HeldValue # None
    /\ PresentPushed = windowSize
    /\ ds[subLen + 1] # None
    /\ \E i, j \in subLen + 1 .. Len(ds) : i < j /\ ds[i] = None /\ ds[j] # None
    /\ out[Len(out)] = HeldValue

\* C8: whatever the source's length was when the filter subscribed, the
\* filter's output has the length of the source, each entry carrying the
\* dateTime of the sample at its position.
C8_LengthAlignment ==
    Len(out) = Len(ds) /\ outTimes = dsTimes

\* C9: whenever the buffer of the SMA window is full, N times the
\* held value is, in exact arithmetic, the sum of the N buffered values, and
\* the value appended to the output is that value; samples 1, 2, 3, 4, 5 with
\* N = 3 give 2, 3, 4 at positions 2, 3, 4.
C9_SimpleAverage ==
    /\ Len(values) = windowSize
         => /\ value # None
            /\ ExactMul(Num(windowSize), value) = SeqSum(values)
            /\ Len(out) > 0 => out[Len(out)] = value
    /\ (ds = <<Num(1), Num(2), Num(3), Num(4), Num(5)>> /\ windowSize = 3)
         => out = <<None, None, Num(2), Num(3), Num(4)>>

\* the last call was valueAt(p) on a position of the series
PulledAt(p) == op = <<OpValueAt, p>> /\ 0 <= p /\ p < Len(ds)

\* C10: for identical histories, missing samples included, the push
\* output at every position p equals the pull value at p.
C10_PushPullEquivalence ==
    \A p \in 0 .. Len(ds) - 1 : PulledAt(p) => ret = out[p + 1]

\* the present samples the filter has been given up to its i-th output entry
PresentUpTo(i) == CountPresent(ds, subLen + i) - CountPresent(ds, subLen)

\* C11: for the SMA, EMA and WMA windows the held derived value is absent
\* exactly while fewer than N present samples have been pushed; every push
\* appends one output entry, which is absent exactly when fewer than N present
\* samples had been pushed up to and including it; an entry after a present
\* entry is present.
C11_AbsentUntilFull ==
    /\ (HeldValue = None) <=> (PresentPushed < windowSize)
    /\ Len(out) = Len(ds) - subLen
    /\ \A i \in 1 .. Len(out) : (out[i] = None) <=> (PresentUpTo(i) < windowSize)
    /\ \A i, j \in 1 .. Len(out) : (i < j /\ out[i] # None) => out[j] # None

\* C11's case: a WMA window of N >= 2 whose first outputs were absent, one of
\* them for a missing sample, and whose output became present on the N-th
\* present sample and stayed present over a later missing sample.
C11_Witness ==
    /\ ewKind = "WMA" /\ windowSize >= 2 /\ Len(out) = MaxPush - subLen
    /\ \E i \in 2 .. Len(out) - 1 :
          /\ out[i - 1] = None /\ out[i] # None /\ PresentUpTo(i) = windowSize
          /\ \E k \in 1 .. i - 1 : ds[subLen + k] = None
          /\ \E k \in i + 1 .. Len(out) : ds[subLen + k] = None /\ out[k] # None

\* the sample the step appends to the source
Pushed == ds'[Len(ds')]

\* C13: the value the EMA window holds is absent until the buffer fills; at
\* the push that fills it, it becomes the simple average of the buffer; after
\* every later present sample x it is (x - previous) * 2/(N+1) + previous; a
\* missing sample changes nothing; the buffer stays full, so the seed is
\* computed once.
C13_EmaRecurrence ==
    [][(ewKind = "EMA" /\ ds' # ds)
          => /\ windowSize > 1
             /\ Len(values') < windowSize => value' = None
             /\ (Len(values) < windowSize /\ Len(values') = windowSize)
                    => /\ value = None /\ Pushed # None
                       /\ value' = FloatDivInt(SeqSum(values'), windowSize)
             /\ Len(values) = windowSize
                    => /\ Len(values') = windowSize
                       /\ Pushed # None
                             => value' = FloatAdd(FloatMul(FloatSub(Pushed, value),
                                                       FloatDivInt(Num(2), windowSize + 1)),
                                                value)
             /\ Pushed = None => value' = value]_vars

\* C13's case: an EMA window that was seeded, given a missing sample, and
\* then a present one: its value is no longer the average of its buffer.
C13_Witness ==
    /\ ewKind = "EMA" /\ op[1] = OpAppend /\ raised = ""
    /\ Len(values) = windowSize /\ PresentPushed = windowSize + 1
    /\ ds[Len(ds)] # None /\ ds[Len(ds) - 1] = None
    /\ value # None /\ value # FloatDivInt(SeqSum(values), windowSize)
    /\ out[Len(out)] = value

IsPresent(x) == x # None

\* the present samples the filter has been given, in push order
PushedPresent == SelectSeq(SubSeq(ds, subLen + 1, Len(ds)), IsPresent)

\* the last n elements of sq, or all of sq when it has fewer
MostRecent(sq, n) == SubSeq(sq, Len(sq) - Min(n, Len(sq)) + 1, Len(sq))

\* sq[1] * w[1] + ... + sq[k] * w[k], and w[1] + ... + w[k]
RECURSIVE WeightedSum(_, _, _)
WeightedSum(sq, w, k) ==
    IF k = 0 THEN Num(0)
    ELSE FloatAdd(WeightedSum(sq, w, k - 1), FloatMul(sq[k], Num(w[k])))
RECURSIVE WeightTotal(_, _)
WeightTotal(w, k) == IF k = 0 THEN 0 ELSE WeightTotal(w, k - 1) + w[k]

\* C14: whenever the buffer of the WMA window is full, the value it gives is
\* the sum of sample * weight over the last N present samples, the oldest
\* paired with the first weight and the newest with the last, divided by the
\* sum of the weights; it is absent while the buffer is not full; the window
\* stores no value: the entry appended to the output is computed from the
\* buffer as it is after the push.
C14_WeightedAverage ==
    ewKind = "WMA"
        => /\ windowSize = Len(weights) /\ value = None
           /\ Len(values) = windowSize
                 => HeldValue = FloatDivInt(WeightedSum(MostRecent(PushedPresent, windowSize),
                                                      weights, windowSize),
                                          WeightTotal(weights, windowSize))
           /\ Len(values) < windowSize => HeldValue = None
           /\ Len(out) > 0 => out[Len(out)] = HeldValue

\* C14's case: weights 1, 2 and the samples 1, 2, 1: the buffer holds 2, 1
\* and the value is (2 * 1 + 1 * 2) / 3.
C14_Witness ==
    /\ ewKind = "WMA" /\ weights = <<1, 2>>
    /\ PushedPresent = <<Num(1), Num(2), Num(1)>>
    /\ values = <<Num(2), Num(1)>>
    /\ HeldValue = FloatDivInt(Num(4), 3) /\ out[Len(out)] = FloatDivInt(Num(4), 3)

\* C17: after any pushes of present and missing samples, the buffer of a
\* window of size N has length min(N, number of present samples pushed), holds
\* the most recently pushed present samples, oldest first, and no missing
\* value; the assertion of SMAEventWindow.onNewValue never fails.
C17_WindowBuffer ==
    /\ Len(values) = Min(windowSize, PresentPushed)
    /\ values = MostRecent(PushedPresent, windowSize)
    /\ \A i \in 1 .. Len(values) : values[i] # None
    /\ raised # "AssertionError"

\* C17's case: an SMA window of 2 given three present samples and a missing
\* one holds the last two present ones, the first having dropped off.
C17_Witness ==
    /\ ewKind = "SMA" /\ windowSize = 2 /\ op[1] = OpAppend /\ raised = ""
    /\ Len(PushedPresent) = 3 /\ Len(ds) - subLen = 4
    /\ PushedPresent[1] # PushedPresent[3]
    /\ values = <<PushedPresent[2], PushedPresent[3]>>

(***************************************************************************)
(* Claims about the lazy indicator over calculate_sma (SpecPull), where    *)
(* the result for a position never changes once the position exists.       *)
(***************************************************************************)
\* the number of times valueAt evicted the watched position p
Evictions(p) == Cardinality({i \in 1 .. Len(evictHist) : evictHist[i] = p})

\* the watched position p exists and its computed value is present
PresentAt(p) == p \in DOMAIN calls /\ InBounds(p) /\ Computed(p) # None

\* C12 as stated: with a bounded FIFO cache, calculateValue is invoked at most
\* once for each position whose computed value is present, whatever is queried
\* in between.
C12_AtMostOnce ==
    \A p \in SeriesPositions :
        (cacheKind = "FIFOCache" /\ PresentAt(p)) => calls[p] <= 1

\* C12 as amended: calculateValue is invoked for such a position once, and
\* once more after each eviction of the position: at most once while no more
\* than C positions of the series can be cached.
C12_OncePerResidence ==
    \A p \in SeriesPositions :
        (cacheKind = "FIFOCache" /\ PresentAt(p))
            => /\ calls[p] = Evictions(p)
                               + (IF isCached(cacheKind, cache, p) THEN 1 ELSE 0)
               /\ getLength(ds) - firstValidPos <= size => calls[p] <= 1

\* C12's case: with capacity C, a position computed, evicted by the C
\* positions queried after it, and computed again by the query that followed.
C12_Witness ==
    \E p \in SeriesPositions :
        /\ cacheKind = "FIFOCache" /\ size = MaxCache /\ PresentAt(p)
        /\ op = <<OpValueAt, p>> /\ ret = Computed(p)
        /\ calls[p] = 2 /\ Evictions(p) = 1 /\ isCached(cacheKind, cache, p)

\* what valueAt(p) returns on the same indicator with the cache disabled
Uncached(p) ==
    getValueAbsolute("NoCache", EmptyMap, <<>>, 0, windowSize, firstValidPos,
                     hook, ds, ext, p).ret

\* C18: with calculate_sma as the range computation, whatever appends and
\* valueAt calls came before, valueAt(p) returns what it returns with the
\* cache disabled, for every capacity; every cached value is the value a
\* computation would give now.
C18_CacheTransparency ==
    /\ \A p \in QueryPositions : op = <<OpValueAt, p>> => ret = Uncached(p)
    /\ \A q \in DOMAIN cache : InBounds(q) /\ cache[q] = Computed(q)
    /\ raised = ""

\* C18's case: a value served from a bounded cache: the position queried was
\* cached before another one was, and the source has grown to its full length.
C18_Witness ==
    \E p \in SeriesPositions :
        /\ cacheKind = "FIFOCache" /\ op = <<OpValueAt, p>>
        /\ isCached(cacheKind, cache, p) /\ pos[Len(pos)] # p
        /\ ret # None /\ ret = cache[p] /\ ret = Uncached(p)
        /\ windowSize >= 2 /\ Len(ds) = MaxLen

(***************************************************************************)
(* Claims about construction (SpecConstruct).                              *)
(***************************************************************************)
\* the arguments the state was built from are among those C15 lists
Misconfigured ==
    \/ hook # "none" /\ windowSize <= 0
    \/ ewKind \in {"EventWindow", "SMA"} /\ windowSize <= 0
    \/ ewKind = "EMA" /\ windowSize <= 1
    \/ ewKind = "WMA" /\ weights = <<>>

\* no call was made since the constructor
NothingReceived ==
    /\ op = <<OpInit, 0>> /\ ds = <<>> /\ out = <<>> /\ values = <<>>
    /\ value = None /\ cache = EmptyMap /\ ret = None

\* C15: an EventWindow or TechnicalIndicatorBase built with a window size
\* <= 0, an SMA window with a period <= 0, an EMA window with a period <= 1
\* and a WMA window with no weights fail with an assertion in the constructor,
\* and nothing is ever called on them.
C15_ConstructionMisuse ==
    Misconfigured => raised = "AssertionError" /\ ~Constructed /\ NothingReceived

\* C15's case: EMAEventWindow(1) has raised.
C15_Witness ==
    /\ ewKind = "EMA" /\ windowSize = 1
    /\ raised = "AssertionError" /\ ~Constructed /\ NothingReceived

\* C16: FIFOCache(size) with size <= 0 is rejected by the constructor, and so
\* is a TechnicalIndicatorBase given a negative cacheSize; cacheSize = 0 is
\* accepted and selects NoCache; no FIFOCache with a capacity <= 0 exists.
C16_CacheCapacity ==
    /\ (hook = "none" /\ ewKind = "none" /\ size <= 0) => ~Constructed
    /\ (hook # "none" /\ cacheSize < 0) => ~Constructed
    /\ (hook # "none" /\ cacheSize = 0 /\ windowSize > 0)
          => Constructed /\ cacheKind = "NoCache"
    /\ (Constructed /\ cacheKind = "FIFOCache") => size > 0

(***************************************************************************)
(* Claims about the cache driven directly (SpecCache).                     *)
(***************************************************************************)
Distinct(sq) == \A i, j \in 1 .. Len(sq) : i # j => sq[i] # sq[j]

\* C2: on a FIFOCache of capacity C > 0, after any putValue the number of
\* stored positions is at most C.
C2_CapacityInvariant ==
    (cacheKind = "FIFOCache" /\ op[1] = OpPutValue)
        => Cardinality(DOMAIN cache) <= size

\* C3: every sequence of isCached, getValue and putValue calls completes
\* without raising, and getValue returns the given default on a miss.
C3_NoFailureModes ==
    /\ raised = ""
    /\ (op[1] = OpGetValue /\ ~isCached(cacheKind, cache, op[2]))
           => ret = ValueNotCached

\* the first C+1 putValue calls were made on distinct positions p0 .. pC
FirstPutsDistinct ==
    /\ cacheKind = "FIFOCache"
    /\ Len(putHist) >= size + 1
    /\ Distinct(SubSeq(putHist, 1, size + 1))
\* ... and the next call re-inserted p0
ReinsertedFirst ==
    /\ FirstPutsDistinct
    /\ Len(putHist) >= size + 2
    /\ putHist[size + 2] = putHist[1]

\* C4: after putValue on C+1 distinct positions p0 .. pC, p0 is not cached and
\* p1 .. pC are; re-inserting p0 puts it at the back of the eviction order:
\* the evictions that follow remove p1, p2, ..., pC in that order and p0 only
\* after all of them.
C4_FifoEvictionOrder ==
    /\ (FirstPutsDistinct /\ Len(putHist) = size + 1)
         => /\ ~isCached(cacheKind, cache, putHist[1])
            /\ \A i \in 2 .. size + 1 : isCached(cacheKind, cache, putHist[i])
            /\ evictHist = <<putHist[1]>>
    /\ ReinsertedFirst
         => /\ \A i \in 1 .. Min(Len(evictHist), size + 2) :
                   evictHist[i] = putHist[i]
            /\ Len(evictHist) >= 2
            /\ Len(evictHist) <= size + 1
                   => isCached(cacheKind, cache, putHist[1])

\* C4's case: p0 .. pC inserted, p0 re-inserted, and C more evictions made,
\* the last of which removed p0.
C4_Witness ==
    /\ ReinsertedFirst
    /\ size = MaxCache
    /\ Len(evictHist) = size + 2
    /\ evictHist[size + 2] = putHist[1]
    /\ ~isCached(cacheKind, cache, putHist[1])

(***************************************************************************)
(* Claims about the bounds and the cache of the lazy indicator (SpecLazy). *)
(***************************************************************************)
\* C19: over a source whose first valid position is >= 0, the indicator's
\* first valid position is N - 1 + the source's, and no valueAt(pos), for a
\* negative pos or any other and for any length of the source, reaches
\* calculateValue with pos - N + 1 < 0: the assertion firstPos >= 0 never
\* fails.
C19_RangeStart ==
    /\ dsFirstValid >= 0
    /\ firstValidPos = windowSize - 1 + dsFirstValid
    /\ raised # "AssertionError"
    /\ \A p \in QueryPositions :
          (op = <<OpValueAt, p>> /\ p - windowSize + 1 < 0)
              => ret = None /\ (p \in DOMAIN calls => calls[p] = 0)

\* C19's case: with N >= 2, valueAt on the first valid position computed a
\* value over the range that starts at position 0.
C19_Witness ==
    /\ windowSize >= 2 /\ dsFirstValid = 0
    /\ op = <<OpValueAt, firstValidPos>> /\ raised = ""
    /\ firstValidPos - windowSize + 1 = 0
    /\ firstValidPos \in DOMAIN calls /\ calls[firstValidPos] >= 1
    /\ isCached(cacheKind, cache, firstValidPos)
    /\ ret # None

\* C20: on an indicator driven through valueAt only, the insertion log of the
\* FIFOCache holds each cached position exactly once and nothing else, so its
\* length is the size of the map, at most C; putValue never finds the position
\* it evicts missing from the map.
C20_LogMatchesMap ==
    cacheKind = "FIFOCache"
        => /\ Distinct(pos)
           /\ {pos[i] : i \in 1 .. Len(pos)} = DOMAIN cache
           /\ Len(pos) = Cardinality(DOMAIN cache)
           /\ Len(pos) <= size
           /\ raised # "KeyError"

\* C20's case: a full cache of capacity C whose oldest position was evicted by
\* a valueAt on a new position: the log is the C cached positions, new one last.
C20_Witness ==
    \E p \in SeriesPositions :
        /\ cacheKind = "FIFOCache" /\ size = MaxCache
        /\ op = <<OpValueAt, p>> /\ ret # None
        /\ Len(pos) = size /\ pos[Len(pos)] = p
        /\ evictHist # <<>> /\ evictHist[1] \notin DOMAIN cache
        /\ {pos[i] : i \in 1 .. Len(pos)} = DOMAIN cache

====
